---- MODULE Spec2Model ----
(***************************************************************************)
(* Yen's k-shortest loopless paths, graph/path/yen_ksp.go.                 *)
(*                                                                         *)
(* The model follows YenKShortestPaths statement by statement.  Edge       *)
(* weights and the cost budget are float64 in the source; they are         *)
(* modelled as integers with one distinguished value Inf for +Inf, so      *)
(* sums are exact (no rounding).  DijkstraFromTo lives in another file of  *)
(* the package; it is modelled from its contract: a minimum-weight         *)
(* loopless path over whatever the view's From enumerates, ties broken     *)
(* arbitrarily, (empty, +Inf) when the target is unreachable.              *)
(***************************************************************************)
EXTENDS Integers, Sequences, FiniteSets

(* ---------------- bounds of the explored inputs ---------------- *)
MaxWeight == 1
MaxK == 2
MaxCost == 1
\* Bounds of the mask states explored when the view is driven on its own.
MaxMaskNodes == 2
MaxMaskEdges == 2

Nodes == {1, 2, 3, 4}
\* Candidate edges of the explored directed graphs (source 1, target 4).
TemplateDirected == {<<1, 2>>, <<1, 3>>, <<1, 4>>, <<2, 3>>, <<2, 4>>, <<3, 4>>}
\* Candidate edges of the explored undirected graphs, one orientation each.
TemplateUndirected == {<<1, 2>>, <<1, 3>>, <<2, 3>>, <<2, 4>>, <<3, 4>>}
\* Places where one negative weight may be put.
NegSpots == {<<3, 2>>, <<2, 4>>}
Targets == {1, 4}

\* +Inf of float64: larger than every finite sum the bounded graphs produce.
Inf == (MaxWeight + MaxCost + 1) * 1000

VARIABLES
    g,            \* the wrapped graph: [set of ordered pairs -> weight]
    isDirected,   \* yenKSPAdjuster.isDirected
    k, costBudget, s, t,   \* arguments of YenKShortestPaths
    pc,           \* position in YenKShortestPaths
    cost,         \* local cost after line 37 (absolute ceiling)
    paths,        \* accepted paths
    pot,          \* candidate pool: sequence of [path, weight]
    i, n,         \* loop counters (n is 0-based as in the source)
    root,         \* root of the current spur iteration
    nilMaps,      \* TRUE while visitedNodes/visitedEdges are nil maps
    visitedNodes, \* yenKSPAdjuster.visitedNodes
    visitedEdges, \* yenKSPAdjuster.visitedEdges
    result        \* the returned slice (<<>> for nil)

vars == <<g, isDirected, k, costBudget, s, t, pc, cost, paths, pot, i, n, root,
          nilMaps, visitedNodes, visitedEdges, result>>

(* ---------------- helpers on sequences ---------------- *)
Range(q) == {q[j] : j \in 1..Len(q)}

Min(S) == CHOOSE x \in S : \A y \in S : x <= y

RECURSIVE Ascending(_)
\* One enumeration order of a finite set of node ids.
Ascending(S) == IF S = {} THEN <<>> ELSE <<Min(S)>> \o Ascending(S \ {Min(S)})

\* float64 addition with +Inf absorbing.
FAdd(a, b) == IF a = Inf \/ b = Inf THEN Inf ELSE a + b

(* ---------------- the wrapped graph ---------------- *)
\* g.Graph.From(id): the neighbours of id in the wrapped graph.
GraphFrom(id) == {v \in Nodes : <<id, v>> \in DOMAIN g}

\* yenKSPAdjuster.Weight / yk.weight: delegates to the wrapped graph.  An
\* unweighted graph (UniformCost, line 33) is a graph whose weights are all 1.
Weight(xid, yid) == g[<<xid, yid>>]

RECURSIVE PathWeight(_)
\* Sum of the wrapped graph's edge weights along p.
PathWeight(p) ==
    IF Len(p) <= 1 THEN 0
    ELSE Weight(p[1], p[2]) + PathWeight(Tail(p))

(* ---------------- yenKSPAdjuster ---------------- *)
\* canWalk without the test of the head node.
canWalkEdgesOnly(u, v) == <<u, v>> \notin visitedEdges

canWalk(u, v) ==
    IF v \in visitedNodes THEN FALSE
    ELSE <<u, v>> \notin visitedEdges

RECURSIVE FromLoop(_, _, _)
\* The filtering loop of From: a node that cannot be walked to is
\* overwritten by the last node and the slice is shortened by one.
FromLoop(nodes, idx, id) ==
    IF idx > Len(nodes) THEN nodes
    ELSE IF canWalk(id, nodes[idx]) THEN FromLoop(nodes, idx + 1, id)
    ELSE FromLoop([j \in 1..(Len(nodes) - 1) |->
                      IF j = idx THEN nodes[Len(nodes)] ELSE nodes[j]], idx, id)

\* From(id) when the wrapped graph enumerates id's neighbours in order `nodes`.
\* graph.Empty is the empty sequence.
From(id, nodes) ==
    IF id \in visitedNodes THEN <<>>
    ELSE FromLoop(nodes, 1, id)

removeNode(vn, u) == vn \cup {u}

removeEdge(ve, u, v) ==
    IF ~isDirected THEN ve \cup {<<u, v>>, <<v, u>>}
    ELSE ve \cup {<<u, v>>}

\* reset that keeps the maps.
resetKeeps == [nodes |-> visitedNodes, edges |-> visitedEdges]

\* reset: both maps are replaced by fresh empty maps.
reset == [nodes |-> {}, edges |-> {}]

(* ---------------- the shortest-path oracle ---------------- *)
\* The neighbours the oracle sees through the view.
ViewFrom(u) == Range(From(u, Ascending(GraphFrom(u))))

RECURSIVE Extend(_, _)
\* The walks in W and the loopless walks of the view that extend them by m
\* steps at most, along edges of nonnegative weight (the search stops at a
\* negative one).
Extend(W, m) ==
    IF m = 0 \/ W = {} THEN W
    ELSE W \cup Extend(UNION {{Append(p, v) : v \in {x \in ViewFrom(p[Len(p)]) \ Range(p) :
                                                      Weight(p[Len(p)], x) >= 0}}
                              : p \in W}, m - 1)

\* Loopless walks of the view that start at from.
ViewWalks(from) == Extend({<<from>>}, Cardinality(Nodes) - 1)

\* DijkstraFromTo(from, to, yk): the set of outcomes it may produce.
\* It returns a minimum-weight loopless path of the view (any of the tied
\* ones) and its weight, or (empty, +Inf) when to is unreachable.  It expands
\* nodes by increasing distance until it reaches to, and panics when it
\* expands a node that has an outgoing edge of negative weight; whether a node
\* as far as to is expanded before to depends on the queue's order.
DijkstraFromTo(from, to) ==
    LET walks == ViewWalks(from)
        ps == {p \in walks : p[Len(p)] = to}
        dist(u) == LET ws == {PathWeight(p) : p \in {q \in walks : q[Len(q)] = u}}
                   IN IF ws = {} THEN Inf ELSE Min(ws)
        negTail(u) == \E v \in ViewFrom(u) : Weight(u, v) < 0
        surely == \E u \in Nodes \ {to} : negTail(u) /\ dist(u) < dist(to)
        maybe == /\ from # to
                 /\ \E u \in Nodes \ {to} : negTail(u) /\ dist(u) = dist(to) /\ dist(u) # Inf
        out(p) == [panic |-> FALSE, path |-> p, weight |-> PathWeight(p)]
        none == [panic |-> FALSE, path |-> <<>>, weight |-> Inf]
        boom == [panic |-> TRUE, path |-> <<>>, weight |-> 0]
        normal == IF ps = {} THEN {none}
                  ELSE {out(p) : p \in {q \in ps : PathWeight(q) = dist(to)}}
    IN IF surely THEN {boom}
       ELSE IF maybe THEN {boom} \cup normal
       ELSE normal

(* ---------------- YenKShortestPaths ---------------- *)
\* isSamePath that finds no two paths the same.
isSamePathNever(a, b) == FALSE

isSamePath(a, b) ==
    /\ Len(a) = Len(b)
    /\ \A x \in 1..Len(a) : a[x] = b[x]

\* The root test that accepts every path.
HasRootAlways(path, rt) == TRUE

\* Lines 61-67: the first len(root) nodes of path are those of root.
HasRoot(path, rt) == \A x \in 1..Len(rt) : path[x] = rt[x]

\* The edge loop that removes nothing.
RemoveRootEdgesNone(ve, idx, rt, m) == ve

RECURSIVE RemoveRootEdges(_, _, _, _)
\* Lines 57-71 for spur index m (0-based): for every accepted path longer
\* than m that starts with rt, removeEdge(path[m], path[m+1]).
RemoveRootEdges(ve, idx, rt, m) ==
    IF idx > Len(paths) THEN ve
    ELSE LET path == paths[idx]
         IN IF Len(path) <= m THEN RemoveRootEdges(ve, idx + 1, rt, m)
            ELSE IF HasRoot(path, rt)
                 THEN RemoveRootEdges(removeEdge(ve, path[m + 1], path[m + 2]), idx + 1, rt, m)
                 ELSE RemoveRootEdges(ve, idx + 1, rt, m)

\* path[n+1] of line 69 is out of range for an accepted path equal to root.
IndexOutOfRange(rt, m) ==
    \E idx \in 1..Len(paths) : Len(paths[idx]) = m + 1 /\ HasRoot(paths[idx], rt)

\* The node loop that removes nothing.
RemoveRootNodesNone(vn, idx, rt) == vn

RECURSIVE RemoveRootNodes(_, _, _)
\* Lines 72-74: removeNode for every node of root but the last.
RemoveRootNodes(vn, idx, rt) ==
    IF idx > Len(rt) - 1 THEN vn
    ELSE RemoveRootNodes(removeNode(vn, rt[idx]), idx + 1, rt)

RECURSIVE RootWeight(_, _)
\* Lines 81-85: the weight of root, summed left to right from x.
RootWeight(rt, x) ==
    IF x > Len(rt) THEN 0
    ELSE Weight(rt[x - 1], rt[x]) + RootWeight(rt, x + 1)

\* Lines 80-88: the spur path r spliced after the root without its last
\* node, and the root's weight added to the spur path's.
Candidate(rt, r) ==
    IF Len(rt) > 1
    THEN [path |-> SubSeq(rt, 1, Len(rt) - 1) \o r.path,
          weight |-> r.weight + RootWeight(rt, 2)]
    ELSE [path |-> r.path, weight |-> r.weight]

\* No sort: pot is left in the order of insertion.
SortFuncNone(q) == {q}

\* Lines 107-109: the orders slices.SortFunc may leave pot in; the sort is
\* by weight only and is not stable.
SortFunc(q) ==
    LET m == Len(q)
        perms == {f \in [1..m -> 1..m] : \A a, b \in 1..m : a # b => f[a] # f[b]}
    IN {[j \in 1..m |-> q[f[j]]] : f \in {h \in perms :
            \A a \in 1..(m - 1) : q[h[a]].weight <= q[h[a + 1]].weight}}

\* The test of line 111 without the ceiling.
OverCeilingLenOnly(best) == Len(best.path) <= 1

\* Line 111: the best candidate ends the loop.
OverCeiling(best) == Len(best.path) <= 1 \/ best.weight > cost

\* Line 48 (and 51): where control goes once i has the value ii.
LoopTest(ii) == IF k < 0 \/ ii < k THEN "mask" ELSE "return"

\* The graphs over the candidate edges with weights in W; an undirected graph
\* has every edge in both orientations with one weight.
Graphs(template, directed, W) ==
    LET base == UNION {[E -> W] : E \in SUBSET template}
        sym(f) == [e \in DOMAIN f \cup {<<e[2], e[1]>> : e \in DOMAIN f} |->
                      IF e \in DOMAIN f THEN f[e] ELSE f[<<e[2], e[1]>>]]
    IN IF directed THEN base ELSE {sym(f) : f \in base}

\* base with the weight of edge e set to w (the edge is added if absent);
\* in an undirected graph both orientations carry the weight.
WithEdge(base, e, w, directed) ==
    LET es == IF directed THEN {e} ELSE {e, <<e[2], e[1]>>}
    IN [x \in DOMAIN base \cup es |-> IF x \in es THEN w ELSE base[x]]

\* What a call starts from, given the graph: the arguments, and the locals
\* before line 24.
Call ==
    /\ k \in -1..MaxK
    /\ costBudget \in 0..MaxCost \cup {Inf}
    /\ s = 1
    /\ t \in Targets
    /\ pc = "start"
    /\ cost = 0
    /\ paths = <<>>
    /\ pot = <<>>
    /\ i = 1
    /\ n = 0
    /\ root = <<>>
    /\ nilMaps = TRUE
    /\ visitedNodes = {}
    /\ visitedEdges = {}
    /\ result = <<>>

\* Calls on graphs with nonnegative weights.
Init ==
    /\ isDirected \in BOOLEAN
    /\ g \in Graphs(IF isDirected THEN TemplateDirected ELSE TemplateUndirected, isDirected, 0..MaxWeight)
    /\ Call

\* Calls on graphs with one negative weight.
InitNeg ==
    /\ isDirected \in BOOLEAN
    /\ \E base \in Graphs(IF isDirected THEN TemplateDirected ELSE TemplateUndirected,
                          isDirected, 0..MaxWeight) :
          \E e \in NegSpots : g = WithEdge(base, e, -1, isDirected)
    /\ Call

inputs == <<g, isDirected, k, costBudget, s, t>>

\* Lines 24-48: the first search, the ceiling, the two early returns.
Start ==
    /\ pc = "start"
    /\ \E r \in DijkstraFromTo(s, t) :
          IF r.panic
          THEN /\ pc' = "panic"
               /\ UNCHANGED <<cost, paths, result>>
          ELSE /\ cost' = FAdd(costBudget, r.weight)
               /\ IF Len(r.path) = 0
                  THEN /\ pc' = "done"
                       /\ result' = <<>>
                       /\ paths' = paths
                  ELSE IF Len(r.path) = 1
                  THEN /\ pc' = "done"
                       /\ result' = <<r.path>>
                       /\ paths' = paths
                  ELSE /\ paths' = <<r.path>>
                       /\ IF LoopTest(1) = "mask"
                          THEN pc' = "mask" /\ result' = result
                          ELSE pc' = "done" /\ result' = <<r.path>>
    /\ UNCHANGED <<inputs, pot, i, n, root, nilMaps, visitedNodes, visitedEdges>>

\* Lines 52-74: reset the masks, take the root, remove the edges that leave
\* the root in an accepted path, remove the root's nodes but the spur.
Mask ==
    /\ pc = "mask"
    /\ LET rt == SubSeq(paths[i], 1, n + 1)
       IN /\ root' = rt
          /\ nilMaps' = FALSE
          /\ IF IndexOutOfRange(rt, n)
             THEN /\ pc' = "panic"
                  /\ visitedNodes' = reset.nodes
                  /\ visitedEdges' = reset.edges
             ELSE /\ pc' = "query"
                  /\ visitedEdges' = RemoveRootEdges(reset.edges, 1, rt, n)
                  /\ visitedNodes' = RemoveRootNodes(reset.nodes, 1, rt)
    /\ UNCHANGED <<inputs, cost, paths, pot, i, n, result>>

\* Lines 76-101: the masked search from the spur, the splice with the root,
\* the candidate added to pot if no candidate there is the same path.
Query ==
    /\ pc = "query"
    /\ \E r \in DijkstraFromTo(paths[i][n + 1], t) :
          IF r.panic
          THEN /\ pc' = "panic"
               /\ UNCHANGED <<pot, n>>
          ELSE /\ IF r.weight > cost \/ r.weight = Inf
                  THEN pot' = pot
                  ELSE LET c == Candidate(root, r)
                           isNewPot == \A x \in 1..Len(pot) : ~isSamePath(pot[x].path, c.path)
                       IN pot' = IF isNewPot THEN Append(pot, c) ELSE pot
               /\ n' = n + 1
               /\ pc' = IF n + 1 < Len(paths[i]) - 1 THEN "mask" ELSE "select"
    /\ UNCHANGED <<inputs, cost, paths, i, root, nilMaps, visitedNodes, visitedEdges, result>>

\* Lines 103-118: stop on an empty pot, sort, stop on a best candidate above
\* the ceiling, else accept it; then the loop test of line 48.
Select ==
    /\ pc = "select"
    /\ IF Len(pot) = 0
       THEN /\ pc' = "done"
            /\ result' = paths
            /\ UNCHANGED <<paths, pot, i, n>>
       ELSE \E sorted \in SortFunc(pot) :
               LET best == sorted[1]
               IN IF OverCeiling(best)
                  THEN /\ pc' = "done"
                       /\ result' = paths
                       /\ pot' = sorted
                       /\ UNCHANGED <<paths, i, n>>
                  ELSE /\ paths' = Append(paths, best.path)
                       /\ pot' = Tail(sorted)
                       /\ i' = i + 1
                       /\ n' = 0
                       /\ IF LoopTest(i + 1) = "mask"
                          THEN pc' = "mask" /\ result' = result
                          ELSE pc' = "done" /\ result' = Append(paths, best.path)
    /\ UNCHANGED <<inputs, cost, root, nilMaps, visitedNodes, visitedEdges>>

Next == Start \/ Mask \/ Query \/ Select

Spec == Init /\ [][Next]_vars

\* Control moves on: the call is at a statement and leaves it.  Every step
\* of Next changes pc, and Next has a step wherever pc is not final.
Advance ==
    /\ pc \in {"start", "mask", "query", "select"}
    /\ pc' \in {"mask", "query", "select", "done", "panic"}
    /\ pc' # pc

\* The call is single-threaded and nothing suspends it: it does not stay
\* forever at a statement it can leave.
LiveSpec == Spec /\ WF_pc(Advance)

\* Every step of the call is a step of Advance.
StepsAdvance == [][Advance]_vars

SpecNeg == InitNeg /\ [][Next]_vars

(* ---------------- the masking view driven on its own ---------------- *)
\* A freshly constructed yenKSPAdjuster (lines 25-28): both maps nil.
InitAdj ==
    /\ isDirected \in BOOLEAN
    /\ g \in Graphs(IF isDirected THEN TemplateDirected \cup {<<3, 2>>}
                    ELSE TemplateUndirected, isDirected, {1})
    /\ k = 0
    /\ costBudget = 0
    /\ s = 1
    /\ t = 4
    /\ pc = "adj"
    /\ cost = 0
    /\ paths = <<>>
    /\ pot = <<>>
    /\ i = 1
    /\ n = 0
    /\ root = <<>>
    /\ nilMaps = TRUE
    /\ visitedNodes = {}
    /\ visitedEdges = {}
    /\ result = <<>>

locals == <<pc, cost, paths, pot, i, n, root, result>>

\* A call of reset.
CallReset ==
    /\ pc = "adj"
    /\ nilMaps' = FALSE
    /\ visitedNodes' = reset.nodes
    /\ visitedEdges' = reset.edges
    /\ UNCHANGED <<inputs, locals>>

\* A call of removeNode(u); writing to a nil map panics.
CallRemoveNode ==
    /\ pc = "adj"
    /\ \E u \in Nodes :
          IF nilMaps
          THEN /\ pc' = "panic"
               /\ UNCHANGED <<visitedNodes, cost, paths, pot, i, n, root, result>>
          ELSE /\ visitedNodes' = removeNode(visitedNodes, u)
               /\ Cardinality(visitedNodes') <= MaxMaskNodes
               /\ UNCHANGED locals
    /\ UNCHANGED <<inputs, nilMaps, visitedEdges>>

\* A call of removeEdge(u, v); writing to a nil map panics.
CallRemoveEdge ==
    /\ pc = "adj"
    /\ \E u, v \in Nodes :
          /\ u # v
          /\ IF nilMaps
             THEN /\ pc' = "panic"
                  /\ UNCHANGED <<visitedEdges, cost, paths, pot, i, n, root, result>>
             ELSE /\ visitedEdges' = removeEdge(visitedEdges, u, v)
                  /\ Cardinality(visitedEdges') <= (IF isDirected THEN 1 ELSE 2) * MaxMaskEdges
                  /\ UNCHANGED locals
    /\ UNCHANGED <<inputs, nilMaps, visitedNodes>>

NextAdj == CallReset \/ CallRemoveNode \/ CallRemoveEdge

SpecAdj == InitAdj /\ [][NextAdj]_vars

(* ======================= properties ======================= *)
\* All sequences over Nodes without a repeated node.
LooplessSeqs ==
    UNION {{q \in [1..m -> Nodes] : \A a, b \in 1..m : a # b => q[a] # q[b]}
           : m \in 1..Cardinality(Nodes)}

\* The loopless s-to-t paths of the wrapped graph.
AllPaths ==
    {p \in LooplessSeqs : /\ p[1] = s
                          /\ p[Len(p)] = t
                          /\ \A j \in 1..(Len(p) - 1) : <<p[j], p[j + 1]>> \in DOMAIN g}

\* The list the call has accepted so far, and returns at the end.
Accepted == IF pc = "done" THEN result ELSE paths

Distinct(q) == \A a, b \in 1..Len(q) : a # b => q[a] # q[b]

\* C1: the accepted paths are in nondecreasing order of true weight.
C1_NondecreasingWeights ==
    \A j \in 1..(Len(Accepted) - 1) :
        PathWeight(Accepted[j]) <= PathWeight(Accepted[j + 1])

C1_Witness ==
    /\ pc = "done"
    /\ Len(result) >= 3
    /\ PathWeight(result[1]) < PathWeight(result[2])
    /\ PathWeight(result[2]) = PathWeight(result[3])

\* C2: when t is reachable and k is not 0, the weights of the returned paths
\* are the m smallest weights, in order, among the loopless s-to-t paths
\* within the cost limit, where m is their number (k < 0) or the smaller of k
\* and their number (k >= 1).
C2_KShortestWithinCost ==
    (pc = "done" /\ k # 0 /\ AllPaths # {}) =>
        LET shortest == Min({PathWeight(p) : p \in AllPaths})
            P == {p \in AllPaths : PathWeight(p) <= FAdd(shortest, costBudget)}
            m == IF k < 0 \/ Cardinality(P) < k THEN Cardinality(P) ELSE k
        IN /\ Len(result) = m
           /\ \A j \in 1..m :
                 LET w == PathWeight(result[j])
                 IN /\ Cardinality({p \in P : PathWeight(p) < w}) < j
                    /\ Cardinality({p \in P : PathWeight(p) <= w}) >= j

C2_Witness ==
    /\ pc = "done"
    /\ k < 0
    /\ costBudget = 1
    /\ Len(result) >= 3
    /\ Cardinality(AllPaths) > Len(result)

\* C3: no accepted path weighs more than the first one plus the cost budget.
C3_WithinCeiling ==
    \A j \in 1..Len(Accepted) :
        PathWeight(Accepted[j]) <= FAdd(PathWeight(Accepted[1]), costBudget)

C3_Witness ==
    /\ pc = "done"
    /\ Len(result) >= 2
    /\ Len(pot) > 0
    /\ pot[1].weight > FAdd(PathWeight(result[1]), costBudget)

\* C4: for k >= 0 the call returns at most k paths.
C4_AtMostK ==
    (pc = "done" /\ k >= 0) => Len(result) <= k

\* C5: on a graph with a negative edge weight the call never returns.
C5_NegativeWeightPanics ==
    (\E e \in DOMAIN g : g[e] < 0) => pc # "done"

\* C6: no two accepted paths are the same, no two candidates of pot are the
\* same, and no candidate of pot is an accepted path.
C6_NoDuplicates ==
    /\ Distinct(Accepted)
    /\ Distinct([x \in 1..Len(pot) |-> pot[x].path])
    /\ \A x \in 1..Len(pot) : \A j \in 1..Len(paths) : pot[x].path # paths[j]

\* A search whose spliced result is already a candidate of pot.
C6_Witness ==
    /\ pc = "query"
    /\ \E r \in DijkstraFromTo(paths[i][n + 1], t) :
          /\ ~r.panic
          /\ r.weight <= cost
          /\ r.weight # Inf
          /\ \E x \in 1..Len(pot) : pot[x].path = Candidate(root, r).path

\* C7: every accepted path is a loopless path of the wrapped graph from s
\* to t.
C7_LooplessPaths ==
    \A j \in 1..Len(Accepted) :
        LET p == Accepted[j]
        IN /\ Len(p) >= 1
           /\ p[1] = s
           /\ p[Len(p)] = t
           /\ \A x \in 1..(Len(p) - 1) : <<p[x], p[x + 1]>> \in DOMAIN g
           /\ \A a, b \in 1..Len(p) : a # b => p[a] # p[b]

\* A returned deviation one of whose later nodes has an edge back to a node
\* of its prefix.
C7_Witness ==
    /\ pc = "done"
    /\ \E j \in 2..Len(result) :
          \E a, b \in 1..Len(result[j]) :
             /\ a + 1 < b
             /\ <<result[j][b], result[j][a]>> \in DOMAIN g

\* C8: at every masked search, for spur index n of the last accepted path,
\* the removed nodes are the nodes of the root other than the spur and the
\* removed edges are the edges that leave the root in the accepted paths
\* that start with it (in both orientations when the graph is undirected).
C8_MaskIsExact ==
    (pc = "query") =>
        LET last == paths[i]
            rt == SubSeq(last, 1, n + 1)
            sharing == {j \in 1..Len(paths) :
                           Len(paths[j]) >= n + 2 /\ SubSeq(paths[j], 1, n + 1) = rt}
            E == {<<paths[j][n + 1], paths[j][n + 2]>> : j \in sharing}
        IN /\ visitedNodes = Range(rt) \ {last[n + 1]}
           /\ visitedEdges = IF isDirected THEN E
                             ELSE E \cup {<<e[2], e[1]>> : e \in E}

\* A masked search in a later round, below the first node, with two
\* accepted paths sharing the root.
C8_Witness ==
    /\ pc = "query"
    /\ i >= 3
    /\ n >= 1
    /\ Cardinality({j \in 1..Len(paths) : Len(paths[j]) >= n + 2
                       /\ SubSeq(paths[j], 1, n + 1) = root}) >= 2

\* The orders in which the wrapped graph may enumerate a set of nodes.
Orders(S) ==
    {q \in [1..Cardinality(S) -> S] : \A a, b \in 1..Cardinality(S) : a # b => q[a] # q[b]}

FromIsFiltered ==
    \A id \in Nodes : \A nodes \in Orders(GraphFrom(id)) :
        LET got == From(id, nodes)
        IN /\ Cardinality(Range(got)) = Len(got)
           /\ Range(got) = IF id \in visitedNodes THEN {}
                           ELSE {v \in GraphFrom(id) :
                                    v \notin visitedNodes /\ <<id, v>> \notin visitedEdges}

\* C9: in every mask state From(id) is empty for a removed id and otherwise
\* the wrapped graph's neighbours of id that are neither removed nodes nor
\* reached by a removed edge; the wrapped graph never changes.
C9_FromFiltersMask ==
    [](FromIsFiltered) /\ [][g' = g]_vars

\* A node that keeps one neighbour and loses one to a removed node and one
\* to a removed edge.
C9_Witness ==
    /\ pc = "adj"
    /\ \E id \in Nodes \ visitedNodes :
          \E u, v, w \in GraphFrom(id) :
             /\ u \in visitedNodes
             /\ v \notin visitedNodes /\ <<id, v>> \in visitedEdges
             /\ w \notin visitedNodes /\ <<id, w>> \notin visitedEdges

\* C10: the call ends, and round i is never entered with i greater than the
\* number of loopless s-to-t paths.
C10_Terminates ==
    /\ <>(pc = "done")
    /\ [](pc \in {"mask", "query", "select"} => i <= Cardinality(AllPaths))

C10_Witness ==
    /\ pc = "done"
    /\ k < 0
    /\ costBudget = Inf
    /\ Len(result) >= 4

====
